---- MODULE Spec2Model ----
(***************************************************************************)
(* CustomRender (src/index.ts): the intake / pending store / frame-budget  *)
(* flush scheduler of the DOM throttling plugin.                           *)
(*                                                                         *)
(* The host (browser + plugin manager) drives the module through           *)
(* callbacks that never overlap: plugin start/stop, the #app-mount poll    *)
(* interval, the one-shot start delay timeout, MutationObserver batches,   *)
(* requestAnimationFrame callbacks and the settings change listener.       *)
(* pc = "idle" is a state between callbacks; the other values of pc are    *)
(* positions inside handleMutations / enqueueTree / flushQueue.            *)
(***************************************************************************)
EXTENDS Integers, Sequences, FiniteSets, TLC

(* ------------------------------ bounds --------------------------------- *)

\* number of nodes of the flat and the star document
NumNodes == 7

\* number of nodes of the documents that vary in shape and in attributes
TreeSize == 3

\* settings.store.maxOpsPerFrame is read from 1..MaxOps
MaxOps == 2

\* settings.store.frameBudgetMs is read from 1..MaxBudget
MaxBudget == 2

\* performance.now() advances by 0..MaxTick ms during one reveal
MaxTick == 1

(* ---------------------------- constants -------------------------------- *)

\* src/index.ts:53 has 4000; the model scales the threshold down to keep
\* the node universe finite.
QUEUE_LIMIT == 6

EXCLUDED_TAGS == {"HTML", "HEAD", "BODY", "STYLE", "SCRIPT", "LINK", "META"}

(* ------------------------------ state ---------------------------------- *)

VARIABLES
    doc,            \* host: the DOM below #app-mount (parent, tagName, id, ignore attribute)
    mountReady,     \* host: document has #app-mount with children
    started,        \* host: the plugin manager's started flag of this plugin
    active,         \* settings.store.active
    scheduled,      \* host: number of outstanding requestAnimationFrame callbacks
    hidden,         \* nodes whose classList holds PENDING_CLASS
    rafId,
    pollTimer,
    startDelayTimer,
    observer,
    appMount,
    pendingQueue,
    pendingSet,
    isFlushing,
    isStopped,
    activeListener,
    pc,             \* position of the running callback, "idle" between callbacks
    batch,          \* handleMutations: added nodes not yet passed to enqueueTree
    walk,           \* enqueueTree: nodes the TreeWalker has still to yield
    walkPeak,       \* history: largest pendingQueue.length seen in the current enqueueTree call
    batchPeak,      \* history: largest pendingQueue.length seen in the current handleMutations call
    maxOps,         \* flushQueue locals
    frameBudgetMs,
    ops,
    elapsed,        \* performance.now() - start at the latest reading
    revealed        \* nodes flushQueue has revealed in this invocation, in order

hostVars == <<doc, mountReady, started, active, scheduled, hidden>>
lifeVars == <<pollTimer, startDelayTimer, observer, appMount, isStopped, activeListener>>
storeVars == <<rafId, pendingQueue, pendingSet, isFlushing>>
intakeVars == <<batch, walk, walkPeak, batchPeak>>
flushVars == <<maxOps, frameBudgetMs, ops, elapsed, revealed>>
vars == <<hostVars, lifeVars, storeVars, pc, intakeVars, flushVars>>

(* ---------------------------- documents -------------------------------- *)

Plain == [tagName |-> "DIV", id |-> "", ignore |-> FALSE]

\* attribute combinations a node can have besides the plain one
SpecialAttrs ==
    { [tagName |-> "STYLE", id |-> "", ignore |-> FALSE],
      [tagName |-> "STYLE", id |-> "", ignore |-> TRUE],
      [tagName |-> "DIV", id |-> "app-mount", ignore |-> FALSE],
      [tagName |-> "DIV", id |-> "app-mount", ignore |-> TRUE],
      [tagName |-> "DIV", id |-> "", ignore |-> TRUE],
      [tagName |-> "#text", id |-> "", ignore |-> FALSE] }

\* parent 0 is the existing tree (#app-mount itself or an unmarked element below it)
Shapes(n) == { p \in [1..n -> 0..(n - 1)] : \A k \in 1..n : p[k] < k }

MakeDoc(p, a) == [parent |-> p, attr |-> a]

IsLeaf(p, k) == \A c \in DOMAIN p : p[c] # k

\* every shape of TreeSize nodes, with at most one node that is not plain;
\* a text node has no children
TreeDocs ==
    { MakeDoc(p, [k \in 1..TreeSize |-> Plain]) : p \in Shapes(TreeSize) }
    \cup
    { MakeDoc(x[1], [k \in 1..TreeSize |-> IF k = x[2] THEN x[3] ELSE Plain]) :
        x \in { y \in Shapes(TreeSize) \X (1..TreeSize) \X SpecialAttrs :
                  y[3].tagName = "#text" => IsLeaf(y[1], y[2]) } }

\* NumNodes plain siblings
FlatDoc == MakeDoc([k \in 1..NumNodes |-> 0], [k \in 1..NumNodes |-> Plain])

\* node 1 with NumNodes - 1 plain children
StarDoc == MakeDoc([k \in 1..NumNodes |-> IF k = 1 THEN 0 ELSE 1], [k \in 1..NumNodes |-> Plain])

Nodes == DOMAIN doc.parent

Range(s) == { s[i] : i \in DOMAIN s }

(* ------------------------- node capabilities --------------------------- *)

IsElement(n) == doc.attr[n].tagName # "#text"

HasIgnoreAttr(n) == doc.attr[n].ignore

\* root.closest(`[${IGNORE_ATTR}]`) is non-null: n or an ancestor of n carries the attribute
RECURSIVE Closest(_)
Closest(n) ==
    IF n = 0 THEN FALSE
    ELSE HasIgnoreAttr(n) \/ Closest(doc.parent[n])

ShouldSkipElement(n) ==
    IF doc.attr[n].id = "app-mount" THEN TRUE
    ELSE IF doc.attr[n].tagName \in EXCLUDED_TAGS THEN TRUE
    ELSE FALSE

AcceptNode(n) ==
    IF ShouldSkipElement(n) THEN "FILTER_SKIP"
    ELSE IF HasIgnoreAttr(n) THEN "FILTER_REJECT"
    ELSE "FILTER_ACCEPT"

\* The nodes walker.nextNode() yields below n, in document order (children by
\* ascending number): a rejected node hides its subtree, a skipped node does
\* not; SHOW_ELEMENT skips every node that is not an element.
RECURSIVE WalkBelow(_, _)
RECURSIVE Visit(_)
WalkBelow(n, k) ==
    IF k \notin Nodes THEN <<>>
    ELSE IF doc.parent[k] # n THEN WalkBelow(n, k + 1)
    ELSE Visit(k) \o WalkBelow(n, k + 1)

Visit(c) ==
    IF ~IsElement(c) THEN WalkBelow(c, c + 1)
    ELSE IF AcceptNode(c) = "FILTER_REJECT" THEN <<>>
    ELSE IF AcceptNode(c) = "FILTER_SKIP" THEN WalkBelow(c, c + 1)
    ELSE <<c>> \o WalkBelow(c, c + 1)

\* walker.currentNode starts at the root, which the filter is never asked
\* about; then nextNode() until null
TreeWalk(root) == <<root>> \o WalkBelow(root, root + 1)

(* ---------------------- pending store, scheduler ----------------------- *)

SetFlushing(next) == isFlushing' = next

\* variant: revealAllPending that forgets `pendingQueue = []`
RevealAllPending_KeepQueue(raf, sched) ==
    /\ rafId' = 0
    /\ scheduled' = IF raf # 0 THEN sched - 1 ELSE sched
    /\ hidden' = hidden \ pendingSet
    /\ pendingSet' = {}
    /\ UNCHANGED pendingQueue
    /\ SetFlushing(FALSE)

\* variant: revealAllPending without cancelAnimationFrame / rafId = 0
RevealAllPending_NoCancel(raf, sched) ==
    /\ rafId' = raf
    /\ scheduled' = sched
    /\ hidden' = hidden \ pendingSet
    /\ pendingSet' = {}
    /\ pendingQueue' = <<>>
    /\ SetFlushing(FALSE)

\* revealAllPending, entered with rafId = raf and sched callbacks outstanding
RevealAllPending(raf, sched) ==
    /\ rafId' = 0
    /\ scheduled' = IF raf # 0 THEN sched - 1 ELSE sched
    /\ hidden' = hidden \ pendingSet
    /\ pendingSet' = {}
    /\ pendingQueue' = <<>>
    /\ SetFlushing(FALSE)

\* variant: scheduleFlush without the `rafId` early return
ScheduleFlush_NoGuard(act) ==
    IF ~act THEN UNCHANGED <<rafId, scheduled, isFlushing>>
    ELSE IF Len(pendingQueue) = 0 THEN UNCHANGED <<rafId, scheduled, isFlushing>>
    ELSE /\ rafId' = 1
         /\ scheduled' = scheduled + 1
         /\ SetFlushing(TRUE)

\* scheduleFlush with settings.store.active = act; the store is left alone
ScheduleFlush(act) ==
    IF ~act THEN UNCHANGED <<rafId, scheduled, isFlushing>>
    ELSE IF rafId # 0 \/ Len(pendingQueue) = 0 THEN UNCHANGED <<rafId, scheduled, isFlushing>>
    ELSE /\ rafId' = 1
         /\ scheduled' = scheduled + 1
         /\ SetFlushing(TRUE)

\* variant: enqueueElement that forgets classList.add(PENDING_CLASS)
EnqueueElement_NoMark(element) ==
    IF element \in pendingSet THEN UNCHANGED <<hidden, pendingSet, pendingQueue>>
    ELSE /\ UNCHANGED hidden
         /\ pendingSet' = pendingSet \cup {element}
         /\ pendingQueue' = Append(pendingQueue, element)

\* variant: enqueueElement without the pendingSet.has(element) early return
EnqueueElement_NoDedup(element) ==
    /\ hidden' = hidden \cup {element}
    /\ pendingSet' = pendingSet \cup {element}
    /\ pendingQueue' = Append(pendingQueue, element)

EnqueueElement(element) ==
    IF element \in pendingSet THEN UNCHANGED <<hidden, pendingSet, pendingQueue>>
    ELSE /\ hidden' = hidden \cup {element}
         /\ pendingSet' = pendingSet \cup {element}
         /\ pendingQueue' = Append(pendingQueue, element)

(* ---------------------------- initial state ---------------------------- *)

\* the module-level declarations of src/index.ts, before start() is called,
\* with the document d below #app-mount
InitWith(d) ==
    /\ doc = d
    /\ mountReady = FALSE
    /\ started = FALSE
    /\ active = TRUE
    /\ scheduled = 0
    /\ hidden = {}
    /\ rafId = 0
    /\ pollTimer = FALSE
    /\ startDelayTimer = FALSE
    /\ observer = FALSE
    /\ appMount = FALSE
    /\ pendingQueue = <<>>
    /\ pendingSet = {}
    /\ isFlushing = FALSE
    /\ isStopped = FALSE
    /\ activeListener = FALSE
    /\ pc = "idle"
    /\ batch = <<>>
    /\ walk = <<>>
    /\ walkPeak = 0
    /\ batchPeak = 0
    /\ maxOps = 0
    /\ frameBudgetMs = 0
    /\ ops = 0
    /\ elapsed = 0
    /\ revealed = <<>>

Init == \E d \in {FlatDoc, StarDoc} : InitWith(d)

InitIntake == \E d \in TreeDocs : InitWith(d)

\* TreeSize plain siblings
LiveDoc == MakeDoc([k \in 1..TreeSize |-> 0], [k \in 1..TreeSize |-> Plain])

InitLive == InitWith(LiveDoc)

(* ------------------------------ lifecycle ------------------------------ *)

\* the host's document gets #app-mount with children
MountBecomesReady ==
    /\ pc = "idle"
    /\ ~mountReady
    /\ mountReady' = TRUE
    /\ UNCHANGED <<doc, started, active, scheduled, hidden, lifeVars, storeVars, pc,
                   intakeVars, flushVars>>

\* onAppMountReady, as far as the scheduler goes: scheduleThrottleStart
ScheduleThrottleStart ==
    IF isStopped' THEN UNCHANGED startDelayTimer
    ELSE startDelayTimer' = TRUE

\* start(): registerSettingsListeners, waitForAppMount
Start ==
    /\ pc = "idle"
    /\ ~started
    /\ started' = TRUE
    /\ isStopped' = FALSE
    /\ activeListener' = TRUE
    /\ IF mountReady
       THEN /\ appMount' = TRUE
            /\ ScheduleThrottleStart
            /\ UNCHANGED pollTimer
       ELSE /\ pollTimer' = TRUE
            /\ UNCHANGED <<appMount, startDelayTimer>>
    /\ UNCHANGED <<doc, mountReady, active, scheduled, hidden, observer, storeVars, pc,
                   intakeVars, flushVars>>

\* variant: a poll that does not ask isAppMountReady
PollTick_NoReady ==
    /\ pc = "idle"
    /\ pollTimer
    /\ UNCHANGED isStopped
    /\ IF isStopped THEN UNCHANGED <<pollTimer, appMount, startDelayTimer>>
       ELSE /\ pollTimer' = FALSE
            /\ appMount' = TRUE
            /\ ScheduleThrottleStart
    /\ UNCHANGED <<hostVars, observer, activeListener, storeVars, pc, intakeVars, flushVars>>

\* the 250 ms interval of waitForAppMount fires
PollTick ==
    /\ pc = "idle"
    /\ pollTimer
    /\ UNCHANGED isStopped
    /\ IF isStopped THEN UNCHANGED <<pollTimer, appMount, startDelayTimer>>
       ELSE IF mountReady
       THEN /\ pollTimer' = FALSE
            /\ appMount' = TRUE
            /\ ScheduleThrottleStart
       ELSE UNCHANGED <<pollTimer, appMount, startDelayTimer>>
    /\ UNCHANGED <<hostVars, observer, activeListener, storeVars, pc, intakeVars, flushVars>>

StartObserver ==
    IF ~appMount \/ observer THEN UNCHANGED observer
    ELSE observer' = TRUE

\* the timeout of scheduleThrottleStart fires
StartDelayFire ==
    /\ pc = "idle"
    /\ startDelayTimer
    /\ startDelayTimer' = FALSE
    /\ IF isStopped THEN UNCHANGED observer ELSE StartObserver
    /\ UNCHANGED <<hostVars, pollTimer, appMount, isStopped, activeListener, storeVars, pc,
                   intakeVars, flushVars>>

\* variant: stop() without the revealAllPending() call
Stop_NoReveal ==
    /\ pc = "idle"
    /\ started
    /\ started' = FALSE
    /\ isStopped' = TRUE
    /\ activeListener' = FALSE
    /\ observer' = FALSE
    /\ pollTimer' = FALSE
    /\ startDelayTimer' = FALSE
    /\ appMount' = FALSE
    /\ UNCHANGED <<doc, mountReady, active, scheduled, hidden, storeVars, pc, intakeVars,
                   flushVars>>

\* stop()
Stop ==
    /\ pc = "idle"
    /\ started
    /\ started' = FALSE
    /\ isStopped' = TRUE
    /\ activeListener' = FALSE
    /\ observer' = FALSE
    /\ RevealAllPending(rafId, scheduled)
    /\ pollTimer' = FALSE
    /\ startDelayTimer' = FALSE
    /\ appMount' = FALSE
    /\ UNCHANGED <<doc, mountReady, active, pc, intakeVars, flushVars>>

\* variant: an activeListener that does not reveal when the setting goes off
SetActive_NoReveal(value) ==
    /\ pc = "idle"
    /\ active # value
    /\ active' = value
    /\ IF ~activeListener THEN UNCHANGED <<scheduled, hidden, storeVars>>
       ELSE ScheduleFlush(value) /\ UNCHANGED <<hidden, pendingSet, pendingQueue>>
    /\ UNCHANGED <<doc, mountReady, started, lifeVars, pc, intakeVars, flushVars>>

\* settings.store.active is set to value (settings panel or indicator click);
\* the store calls activeListener while it is registered
SetActive(value) ==
    /\ pc = "idle"
    /\ active # value
    /\ active' = value
    /\ IF ~activeListener THEN UNCHANGED <<scheduled, hidden, storeVars>>
       ELSE IF ~value THEN RevealAllPending(rafId, scheduled)
       ELSE ScheduleFlush(value) /\ UNCHANGED <<hidden, pendingSet, pendingQueue>>
    /\ UNCHANGED <<doc, mountReady, started, lifeVars, pc, intakeVars, flushVars>>

(* ------------------------------- intake -------------------------------- *)

\* the mutation batches the host delivers: one added node, or every node of
\* the document in document order
Batches == { <<n>> : n \in Nodes } \cup { [i \in 1..Cardinality(Nodes) |-> i] }

\* the observer's callback is invoked with the added nodes b
HandleMutations(b) ==
    /\ pc = "idle"
    /\ observer
    /\ IF ~active THEN UNCHANGED <<pc, batch, batchPeak>>
       ELSE pc' = "batch" /\ batch' = b /\ batchPeak' = Len(pendingQueue)
    /\ UNCHANGED <<hostVars, lifeVars, storeVars, walk, walkPeak, flushVars>>

\* enqueueTree(node) up to the creation of the walker, for the next added node
EnqueueTreeBegin ==
    /\ pc = "batch"
    /\ batch # <<>>
    /\ batch' = Tail(batch)
    /\ walkPeak' = Len(pendingQueue)
    /\ UNCHANGED batchPeak
    /\ LET node == Head(batch) IN
       IF ~active THEN UNCHANGED <<pc, walk>>
       ELSE IF ~IsElement(node) THEN UNCHANGED <<pc, walk>>
       ELSE IF Closest(node) THEN UNCHANGED <<pc, walk>>
       ELSE pc' = "walk" /\ walk' = TreeWalk(node)
    /\ UNCHANGED <<hostVars, lifeVars, storeVars, flushVars>>

Max(a, b) == IF a >= b THEN a ELSE b

\* one iteration of the while loop of enqueueTree
EnqueueTreeStep ==
    /\ pc = "walk"
    /\ walk # <<>>
    /\ EnqueueElement(Head(walk))
    /\ walk' = Tail(walk)
    /\ walkPeak' = Max(walkPeak, Len(pendingQueue'))
    /\ batchPeak' = Max(batchPeak, Len(pendingQueue'))
    /\ UNCHANGED <<doc, mountReady, started, active, scheduled, lifeVars, rafId, isFlushing,
                   pc, batch, flushVars>>

\* variant: the overflow check written with > instead of >=
Overflow_Gt(queue) == Len(queue) > QUEUE_LIMIT

\* pendingQueue.length >= QUEUE_LIMIT
Overflow(queue) == Len(queue) >= QUEUE_LIMIT

\* enqueueTree after the walk: the overflow check, else scheduleFlush
EnqueueTreeEnd ==
    /\ pc = "walk"
    /\ walk = <<>>
    /\ pc' = "batch"
    /\ IF Overflow(pendingQueue) THEN RevealAllPending(rafId, scheduled)
       ELSE ScheduleFlush(active) /\ UNCHANGED <<hidden, pendingSet, pendingQueue>>
    /\ UNCHANGED <<doc, mountReady, started, active, lifeVars, intakeVars, flushVars>>

\* handleMutations returns
HandleMutationsEnd ==
    /\ pc = "batch"
    /\ batch = <<>>
    /\ pc' = "idle"
    /\ walkPeak' = 0
    /\ batchPeak' = 0
    /\ UNCHANGED <<hostVars, lifeVars, storeVars, batch, walk, flushVars>>

(* -------------------------------- flush -------------------------------- *)

\* the frame callback fires: flushQueue up to the while loop
FlushBegin ==
    /\ pc = "idle"
    /\ scheduled > 0
    /\ IF ~active
       THEN /\ RevealAllPending(0, scheduled - 1)
            /\ UNCHANGED <<pc, flushVars>>
       ELSE IF Len(pendingQueue) = 0
       THEN /\ rafId' = 0
            /\ scheduled' = scheduled - 1
            /\ SetFlushing(FALSE)
            /\ UNCHANGED <<hidden, pendingQueue, pendingSet, pc, flushVars>>
       ELSE /\ rafId' = 0
            /\ scheduled' = scheduled - 1
            /\ \E m \in 1..MaxOps, b \in 1..MaxBudget :
                   maxOps' = m /\ frameBudgetMs' = b
            /\ ops' = 0
            /\ elapsed' = 0
            /\ revealed' = <<>>
            /\ pc' = "flush"
            /\ UNCHANGED <<hidden, pendingQueue, pendingSet, isFlushing>>
    /\ UNCHANGED <<doc, mountReady, started, active, lifeVars, intakeVars>>

\* variant: pendingQueue.shift() instead of pop()
Pop_Shift(queue) == [el |-> Head(queue), rest |-> Tail(queue)]

\* pendingQueue.pop(): the element returned and the queue left
Pop(queue) == [el |-> queue[Len(queue)], rest |-> SubSeq(queue, 1, Len(queue) - 1)]

\* variant: the loop without the performance.now() check
LoopBreaks_NoTime(queue, n, m, now, budget) ==
    \/ n >= m
    \/ Len(queue) = 0

\* the loop is left after this iteration
LoopBreaks(queue, n, m, now, budget) ==
    \/ n >= m
    \/ now >= budget
    \/ Len(queue) = 0

\* variant: the count and the time are checked before the reveal
FlushReveal_CheckFirst ==
    /\ pc = "flush"
    /\ Len(pendingQueue) > 0
    /\ \E t \in 0..MaxTick : elapsed' = elapsed + t
    /\ IF ops >= maxOps \/ elapsed' >= frameBudgetMs
       THEN /\ pc' = "flushEnd"
            /\ UNCHANGED <<pendingQueue, pendingSet, hidden, revealed, ops>>
       ELSE /\ LET el == Pop(pendingQueue).el IN
               /\ pendingQueue' = Pop(pendingQueue).rest
               /\ pendingSet' = pendingSet \ {el}
               /\ hidden' = hidden \ {el}
               /\ revealed' = Append(revealed, el)
            /\ ops' = ops + 1
            /\ pc' = IF Len(pendingQueue') = 0 THEN "flushEnd" ELSE "flush"
    /\ UNCHANGED <<doc, mountReady, started, active, scheduled, lifeVars, rafId, isFlushing,
                   intakeVars, maxOps, frameBudgetMs>>

\* one iteration of the while loop of flushQueue; t ms pass during it
FlushReveal ==
    /\ pc = "flush"
    /\ Len(pendingQueue) > 0
    /\ LET el == Pop(pendingQueue).el IN
       /\ pendingQueue' = Pop(pendingQueue).rest
       /\ pendingSet' = pendingSet \ {el}
       /\ hidden' = hidden \ {el}
       /\ revealed' = Append(revealed, el)
    /\ ops' = ops + 1
    /\ \E t \in 0..MaxTick : elapsed' = elapsed + t
    /\ pc' = IF LoopBreaks(pendingQueue', ops', maxOps, elapsed', frameBudgetMs)
             THEN "flushEnd" ELSE "flush"
    /\ UNCHANGED <<doc, mountReady, started, active, scheduled, lifeVars, rafId, isFlushing,
                   intakeVars, maxOps, frameBudgetMs>>

\* variant: flushQueue that leaves the flushing flag alone when the store is empty
FlushEnd_KeepFlag ==
    /\ pc = "flushEnd"
    /\ IF Len(pendingQueue) > 0 THEN ScheduleFlush(active)
       ELSE UNCHANGED <<rafId, scheduled, isFlushing>>
    /\ pc' = "idle"
    /\ maxOps' = 0
    /\ frameBudgetMs' = 0
    /\ ops' = 0
    /\ elapsed' = 0
    /\ revealed' = <<>>
    /\ UNCHANGED <<doc, mountReady, started, active, hidden, lifeVars, pendingQueue,
                   pendingSet, intakeVars>>

\* variant: flushQueue that does not call scheduleFlush after the loop
FlushEnd_NoReschedule ==
    /\ pc = "flushEnd"
    /\ IF Len(pendingQueue) > 0 THEN UNCHANGED <<rafId, scheduled, isFlushing>>
       ELSE SetFlushing(FALSE) /\ UNCHANGED <<rafId, scheduled>>
    /\ pc' = "idle"
    /\ maxOps' = 0
    /\ frameBudgetMs' = 0
    /\ ops' = 0
    /\ elapsed' = 0
    /\ revealed' = <<>>
    /\ UNCHANGED <<doc, mountReady, started, active, hidden, lifeVars, pendingQueue,
                   pendingSet, intakeVars>>

\* flushQueue after the while loop
FlushEnd ==
    /\ pc = "flushEnd"
    /\ IF Len(pendingQueue) > 0 THEN ScheduleFlush(active)
       ELSE SetFlushing(FALSE) /\ UNCHANGED <<rafId, scheduled>>
    /\ pc' = "idle"
    /\ maxOps' = 0
    /\ frameBudgetMs' = 0
    /\ ops' = 0
    /\ elapsed' = 0
    /\ revealed' = <<>>
    /\ UNCHANGED <<doc, mountReady, started, active, hidden, lifeVars, pendingQueue,
                   pendingSet, intakeVars>>

(* ---------------------------- specification ---------------------------- *)

Next ==
    \/ MountBecomesReady
    \/ Start
    \/ PollTick
    \/ StartDelayFire
    \/ Stop
    \/ \E value \in BOOLEAN : SetActive(value)
    \/ \E b \in Batches : HandleMutations(b)
    \/ EnqueueTreeBegin
    \/ EnqueueTreeStep
    \/ EnqueueTreeEnd
    \/ HandleMutationsEnd
    \/ FlushBegin
    \/ FlushReveal
    \/ FlushEnd

\* the flat and the star document: bursts, overflow, draining
Spec == Init /\ [][Next]_vars

\* the documents that vary in shape and attributes: the intake filter
SpecIntake == InitIntake /\ [][Next]_vars

\* The small flat document under fairness.
\* A callback that has begun runs to completion (one thread, no preemption),
\* and the host fires every frame callback that is requested and not
\* canceled. FlushBegin is disabled while another callback runs, hence the
\* strong form: a frame that is requested again and again does fire.
SpecLive == InitLive /\ [][Next]_vars /\ WF_vars(EnqueueTreeBegin) /\ WF_vars(EnqueueTreeStep)
            /\ WF_vars(EnqueueTreeEnd) /\ WF_vars(HandleMutationsEnd) /\ SF_vars(FlushBegin)
            /\ WF_vars(FlushReveal) /\ WF_vars(FlushEnd)

TypeOK ==
    /\ pendingSet \subseteq Nodes
    /\ hidden \subseteq Nodes
    /\ pc \in {"idle", "batch", "walk", "flush", "flushEnd"}
    /\ scheduled \in 0..1
    /\ rafId \in 0..1

(* ------------------------------- claims -------------------------------- *)

NoDuplicates(queue) == \A i, j \in DOMAIN queue : i # j => queue[i] # queue[j]

StoreEmpty == pendingQueue = <<>> /\ pendingSet = {}

\* the queue flushQueue started from, rebuilt from what is left and what was revealed
Reverse(s) == [i \in 1..Len(s) |-> s[Len(s) + 1 - i]]

FlushOrigin == pendingQueue \o Reverse(revealed)

\* C1: between callbacks a node carries PENDING_CLASS if and only if it is in
\* the pending store, i.e. in pendingSet and in pendingQueue.
C1_HiddenIffPending ==
    pc = "idle" =>
        \A n \in Nodes : (n \in hidden) <=> (n \in pendingSet /\ n \in Range(pendingQueue))

\* C1 witness: between callbacks, some nodes are pending and hidden while
\* others are not.
C1_Witness ==
    /\ pc = "idle"
    /\ Cardinality(hidden) >= 2
    /\ Cardinality(Nodes \ hidden) >= 2
    /\ hidden = pendingSet

\* C2: after every operation (each enqueueElement, each drain iteration, each
\* revealAllPending) |pendingSet| = length(pendingQueue) and both hold the
\* same elements.
C2_LockStep ==
    /\ Cardinality(pendingSet) = Len(pendingQueue)
    /\ Range(pendingQueue) = pendingSet

\* C2 witness: inside a drain, after one reveal, with nodes still pending.
C2_Witness ==
    /\ pc = "flush"
    /\ ops = 1
    /\ Len(pendingQueue) >= 2
    /\ Cardinality(pendingSet) = Len(pendingQueue)

\* C3: no node is ever twice in pendingQueue, and enqueueElement of a node
\* that is already pending changes neither membership nor order nor marker.
C3_NoDuplicate ==
    [][ /\ NoDuplicates(pendingQueue')
        /\ (pc = "walk" /\ walk # <<>> /\ Head(walk) \in Range(pendingQueue))
              => /\ pendingQueue' = pendingQueue
                 /\ pendingSet' = pendingSet
                 /\ hidden' = hidden ]_vars

\* C3 witness: the walk of node 1 of the star document has passed its child 2,
\* which was pending before node 1 was enqueued, and 2 kept its place.
C3_Witness ==
    /\ doc = StarDoc
    /\ pc = "walk"
    /\ Len(walk) = NumNodes - 2
    /\ Head(walk) = 3
    /\ pendingQueue = <<2, 1>>

\* n or one of its ancestors carries IGNORE_ATTR
UnderIgnoreMarker(n) == Closest(n)

\* n is of an excluded tag or is the root container
IsExcluded(n) == doc.attr[n].tagName \in EXCLUDED_TAGS \/ doc.attr[n].id = "app-mount"

\* C4: a node that carries the ignore marker, or that has an ancestor carrying
\* it, is never enqueued or hidden, whatever the shape of the inserted
\* subtree and also when the marked node is of an excluded tag or is the root
\* container.
C4_IgnoredNeverEnqueued ==
    \A n \in Nodes : UnderIgnoreMarker(n) => (n \notin pendingSet /\ n \notin hidden)

\* C4, for marked nodes that are not excluded: this part the walker's
\* FILTER_REJECT and the closest() check do deliver.
C4_IgnoredPlainNeverEnqueued ==
    (\A k \in Nodes : HasIgnoreAttr(k) => ~IsExcluded(k))
        => \A n \in Nodes : UnderIgnoreMarker(n) => (n \notin pendingSet /\ n \notin hidden)

\* C5: a node of an excluded tag, or the root container, is never enqueued or
\* hidden, be it the root of the inserted subtree or a descendant.
C5_ExcludedNeverEnqueued ==
    \A n \in Nodes : IsExcluded(n) => (n \notin pendingSet /\ n \notin hidden)

\* C5, for excluded nodes below the inserted root: the walker skips them and
\* still walks their children.
C5_ExcludedBelowRootSkipped ==
    \A r \in Nodes : \A i \in 2..Len(TreeWalk(r)) : ~IsExcluded(TreeWalk(r)[i])

NothingPendingNorScheduled ==
    /\ StoreEmpty
    /\ hidden = {}
    /\ rafId = 0
    /\ scheduled = 0

\* C6: if the store size reached QUEUE_LIMIT while a batch was handled, then
\* at the end of that handleMutations call everything is revealed, the store
\* is empty and no frame callback is scheduled.
C6_OverflowEndsBatchEmpty ==
    (pc = "batch" /\ batch = <<>> /\ batchPeak >= QUEUE_LIMIT) => NothingPendingNorScheduled

\* C6 as amended: if the store size is at or above QUEUE_LIMIT when the walk of
\* one added node ends, then at the end of that enqueueTree call everything is
\* revealed, the store is empty, no frame callback is scheduled and the
\* flushing flag is off.
C6_OverflowEndsTreeEmpty ==
    (pc = "batch" /\ walkPeak >= QUEUE_LIMIT) => (NothingPendingNorScheduled /\ ~isFlushing)

\* C6 witness: one subtree of QUEUE_LIMIT + 1 qualifying nodes was the whole
\* batch, and handleMutations is about to return with nothing pending.
C6_Witness ==
    /\ pc = "batch"
    /\ batch = <<>>
    /\ walkPeak = QUEUE_LIMIT + 1
    /\ NothingPendingNorScheduled

\* C7: a flush step reveals at most maxOpsPerFrame nodes, and goes on to a
\* further reveal only while fewer than maxOpsPerFrame were revealed and the
\* elapsed time read after the latest reveal is below frameBudgetMs.
C7_FlushBudget ==
    pc \in {"flush", "flushEnd"} =>
        /\ Len(revealed) <= maxOps
        /\ Range(revealed) \cap hidden = {}
        /\ pc = "flush" => (Len(revealed) < maxOps /\ elapsed < frameBudgetMs)

\* C7 witness: the loop was left after one reveal because the time budget was
\* reached, with fewer than maxOpsPerFrame revealed and nodes still pending.
C7_Witness ==
    /\ pc = "flushEnd"
    /\ Len(revealed) = 1
    /\ maxOps > 1
    /\ elapsed >= frameBudgetMs
    /\ pendingQueue # <<>>

\* C8: between callbacks, while active is false the store is empty, no node is
\* hidden and no frame callback is scheduled.
C8_InactiveMeansEmpty ==
    (pc = "idle" /\ ~active) => NothingPendingNorScheduled

\* C8 witness: active is false while the observer is attached and the
\* listener registered, so batches do arrive.
C8_Witness ==
    /\ pc = "idle"
    /\ ~active
    /\ observer
    /\ activeListener
    /\ NothingPendingNorScheduled

\* C9: each reveal takes the most recently enqueued node that is still
\* pending; with maxOpsPerFrame = 2 and the time budget never reached, the
\* queue [1,2,3,4,5] is drained as 5,4 then 3,2 then 1, and the flush that
\* empties the store leaves no frame callback and the flushing flag off.
C9_LifoDrain ==
    /\ [][ pc = "flush" => (FlushOrigin' = FlushOrigin /\ Len(revealed') = Len(revealed) + 1) ]_vars
    /\ []( (pc = "flushEnd" /\ maxOps = 2 /\ elapsed < frameBudgetMs) =>
             /\ FlushOrigin = <<1, 2, 3, 4, 5>> => (revealed = <<5, 4>> /\ pendingQueue = <<1, 2, 3>>)
             /\ FlushOrigin = <<1, 2, 3>> => (revealed = <<3, 2>> /\ pendingQueue = <<1>>)
             /\ FlushOrigin = <<1>> => (revealed = <<1>> /\ pendingQueue = <<>>) )
    /\ [][ (pc = "flushEnd" /\ pendingQueue = <<>>) =>
             (rafId' = 0 /\ scheduled' = 0 /\ ~isFlushing') ]_vars

\* C9 witness: the first flush of [1,2,3,4,5] with maxOpsPerFrame = 2 has
\* revealed 5 then 4.
C9_Witness ==
    /\ doc = FlatDoc
    /\ pc = "flushEnd"
    /\ maxOps = 2
    /\ elapsed < frameBudgetMs
    /\ revealed = <<5, 4>>
    /\ pendingQueue = <<1, 2, 3>>

\* C10: from stop() until the next start() the store is empty, no node is
\* hidden, rafId is 0, no frame callback is outstanding, both timers are
\* cleared and the observer is disconnected.
C10_StoppedIsQuiet ==
    isStopped =>
        /\ NothingPendingNorScheduled
        /\ ~startDelayTimer
        /\ ~pollTimer
        /\ ~observer
        /\ ~isFlushing
        /\ pc = "idle"

\* C10 witness: stopped after the root had been found.
C10_Witness ==
    /\ isStopped
    /\ mountReady
    /\ ~started
    /\ NothingPendingNorScheduled

(* C11: nothing stays hidden indefinitely. With every requested frame
   callback eventually firing, each node that enters the pending store is
   eventually revealed, whatever insertions follow. *)
C11_EventuallyRevealed ==
    \A n \in 1..TreeSize : (n \in pendingSet) ~> (n \notin hidden)

(* C12: at most one frame callback is outstanding. The host holds a
   callback exactly while rafId is non-zero; a callback is requested only
   when none is outstanding; and rafId goes back to zero only together with
   the firing or the cancellation of the one callback. *)
C12_OneFrameOutstanding ==
    /\ [](scheduled <= 1 /\ (scheduled = 1 <=> rafId # 0))
    /\ [][scheduled' > scheduled => (rafId = 0 /\ scheduled = 0 /\ scheduled' = 1)]_vars
    /\ [][(rafId # 0 /\ rafId' = 0) => scheduled' = scheduled - 1]_vars

\* C12 witness: in a burst on the flat document the second enqueueTree call
\* has ended in scheduleFlush with the frame of the first still outstanding.
C12_Witness ==
    /\ doc = FlatDoc
    /\ pc = "batch"
    /\ Len(batch) = NumNodes - 2
    /\ Len(pendingQueue) = 2
    /\ rafId # 0
    /\ scheduled = 1

(* C13: the step that ends a flush (the system is active there) requests the
   next frame callback and leaves the flushing flag true exactly if the store
   is non-empty; with an empty store the flag is false and nothing is
   requested. A frame callback firing while inactive reveals every pending
   node and leaves the idle state. *)
C13_FlushStepEnd ==
    /\ [][pc = "flushEnd" =>
            /\ active
            /\ pc' = "idle"
            /\ pendingQueue' = pendingQueue
            /\ (pendingQueue' # <<>>) <=> (rafId' # 0 /\ scheduled' = 1)
            /\ (pendingQueue' # <<>>) <=> isFlushing'
            /\ pendingQueue' = <<>> => (rafId' = 0 /\ scheduled' = 0)]_vars
    /\ [][(pc = "idle" /\ ~active /\ scheduled' < scheduled) =>
            /\ pc' = "idle"
            /\ pendingQueue' = <<>>
            /\ pendingSet' = {}
            /\ hidden' = {}
            /\ rafId' = 0
            /\ ~isFlushing']_vars

\* C13 witness: the loop of a flush was left with nodes still pending.
C13_Witness ==
    /\ pc = "flushEnd"
    /\ active
    /\ pendingQueue # <<>>
    /\ revealed # <<>>
    /\ rafId = 0

IsPrefix(s, t) == Len(s) <= Len(t) /\ SubSeq(t, 1, Len(s)) = s

\* enqueueElement is about to append n while a frame callback is outstanding
AppendsUnderFrame(n) ==
    /\ pc = "walk"
    /\ rafId # 0
    /\ walk # <<>>
    /\ Head(walk) = n
    /\ n \notin pendingSet

(* C14: a change notification handled while a frame callback is outstanding,
   and that stays below the overflow threshold, only appends; the nodes it
   appends are then drained by that frame or a later one: each of them is
   eventually revealed. *)
C14_AppendedDrained ==
    \A n \in 1..TreeSize : AppendsUnderFrame(n) ~> (pc # "walk" /\ n \notin hidden)

\* C14, the part about the handler alone: each of its steps that is not an
\* overflow reveal keeps the queue as a prefix, hides and reveals nothing
\* that was pending, and leaves the outstanding callback alone.
C14_OnlyAppends ==
    [][(/\ pc \in {"batch", "walk"} \/ pc' = "batch"
        /\ rafId # 0
        /\ ~(pc = "walk" /\ walk = <<>> /\ Overflow(pendingQueue)))
       => /\ IsPrefix(pendingQueue, pendingQueue')
          /\ hidden \subseteq hidden'
          /\ pendingSet \subseteq pendingSet'
          /\ rafId' = rafId
          /\ scheduled' = scheduled]_vars

(* C15: the observer is attached only by the firing of the startup delay,
   which is started only once the root container was found available; while
   the observer is not attached, and while the root is absent, no node is
   enqueued or hidden and no change notification is being handled. *)
C15_ObserverAfterDelay ==
    /\ [](observer => (appMount /\ mountReady /\ ~isStopped))
    /\ [](startDelayTimer => (appMount /\ mountReady))
    /\ [][(~observer /\ observer') => (startDelayTimer /\ ~startDelayTimer' /\ appMount)]_vars
    /\ []((~observer \/ ~mountReady) =>
            (StoreEmpty /\ hidden = {} /\ rafId = 0 /\ pc \notin {"batch", "walk"}))

\* C15 witness: the root was found, the delay has fired and the attached
\* observer has led to a hidden node.
C15_Witness ==
    /\ observer
    /\ appMount
    /\ ~startDelayTimer
    /\ ~pollTimer
    /\ hidden # {}

(* C16: a flush step that starts active with a non-empty store reveals at
   least one node: the first iteration of the loop always reveals, whatever
   maxOpsPerFrame, frameBudgetMs and the time it takes. *)
C16_FlushRevealsOne ==
    /\ []((pc = "flush" /\ revealed = <<>>) => (active /\ pendingQueue # <<>>))
    /\ [][(pc = "flush" /\ revealed = <<>>) =>
            (Len(revealed') = 1 /\ Len(pendingQueue') = Len(pendingQueue) - 1)]_vars
    /\ [](pc = "flushEnd" => (Len(revealed) >= 1 /\ Len(pendingQueue) < Len(FlushOrigin)))

\* C16 witness: the one reveal of a flush step met the count limit and the
\* time budget at once.
C16_Witness ==
    /\ pc = "flushEnd"
    /\ Len(revealed) = 1
    /\ ops >= maxOps
    /\ elapsed >= frameBudgetMs
    /\ pendingQueue # <<>>

(* C17: between callbacks a non-empty store means a frame callback is
   outstanding and the system is active, and an outstanding frame callback
   means the store is non-empty and the flushing flag is set. *)
C17_PendingMeansScheduled ==
    pc = "idle" =>
        /\ pendingQueue # <<>> => (rafId # 0 /\ scheduled = 1 /\ active)
        /\ rafId # 0 => (pendingQueue # <<>> /\ isFlushing)
        /\ hidden # {} => scheduled = 1

\* C17 witness: after a flush step that left nodes behind and a further
\* notification, nodes are pending between callbacks with one frame requested.
C17_Witness ==
    /\ pc = "idle"
    /\ Len(pendingQueue) >= 2
    /\ rafId # 0
    /\ isFlushing
    /\ active

(* C19: when an enqueueTree call has completed, and so between callbacks,
   the pending store holds fewer than QUEUE_LIMIT nodes; only inside the walk
   of one subtree can it hold QUEUE_LIMIT nodes or more, the threshold being
   checked once after the walk. *)
C19_BelowLimitAfterIntake ==
    /\ pc # "walk" => Len(pendingQueue) < QUEUE_LIMIT
    /\ (pc = "batch" /\ walkPeak >= QUEUE_LIMIT) => pendingQueue = <<>>

\* C19 witness: the walk of the star document has passed the threshold and
\* goes on enqueueing.
C19_Witness ==
    /\ pc = "walk"
    /\ walk # <<>>
    /\ Len(pendingQueue) >= QUEUE_LIMIT
    /\ hidden = pendingSet

\* a change notification is taken up while the system is active
InsertionHandled == \E b \in Batches : HandleMutations(b)

(* C18: if insertions eventually stop, with every requested frame callback
   eventually firing, then from some point on the store is empty, no node is
   hidden, no frame callback is requested and the flushing flag is false;
   each flush step leaves the store strictly smaller than it found it, so a
   backlog of n nodes is gone after at most n flush steps. *)
C18_DrainsWhenQuiet ==
    /\ \/ []<><<InsertionHandled>>_vars
       \/ <>[](StoreEmpty /\ hidden = {} /\ rafId = 0 /\ scheduled = 0 /\ ~isFlushing)
    /\ [][pc = "flushEnd" => Len(pendingQueue') < Len(FlushOrigin)]_vars
    /\ [][pc = "flush" => Len(pendingQueue') < Len(pendingQueue)]_vars

\* C18 witness: the last flush step of a backlog has emptied the store.
C18_Witness ==
    /\ pc = "flushEnd"
    /\ revealed # <<>>
    /\ StoreEmpty
    /\ hidden = {}
    /\ scheduled = 0

====
